---------------------------- MODULE Spec2Model ----------------------------
(***************************************************************************)
(* A model of the virtual try-on application: FaceTracker and              *)
(* LandmarkUtils (src/face-targating.js), GlassesRenderer                  *)
(* (src/glasses-models.js) and VirtualTryOnApp (src/unnamed/part_000).     *)
(*                                                                         *)
(* JavaScript runs every handler to completion on one thread, so each      *)
(* handler (and each continuation after an await) is one action.           *)
(*                                                                         *)
(* Numbers.  A JavaScript number is a binary floating-point value.  The    *)
(* model keeps the rounding: a number is a rational <<n, d>> in lowest     *)
(* terms, and every arithmetic operation rounds its exact result to        *)
(* MantBits significant bits, ties to even, as IEEE 754 does (with an      *)
(* unbounded exponent: no overflow, no subnormals).  The program's format  *)
(* has 53 significant bits; MantBits is the model's bound on it.           *)
(*                                                                         *)
(* Landmark frames.  The face mesh has 468 points, of which the program    *)
(* reads indices 1, 33, 159, 263 and 386.  A frame of the model is the     *)
(* order-preserving projection of a mesh onto those five indices, so a     *)
(* frame is an array of at most five entries and a frame that is too       *)
(* short lacks the same landmarks as a mesh that is too short.             *)
(*                                                                         *)
(* Platform.  canvas.getContext("2d") gives a 2D context, or null when the *)
(* canvas already has a WebGL context; which of the two holds is fixed by  *)
(* the platform and is not chosen by the model (context2d).                *)
(***************************************************************************)
EXTENDS Integers, Sequences, FiniteSets, TLC

VARIABLES
    \* LandmarkUtils / FaceTracker pure functions under test
    call,               \* a call of a pure function: its name and arguments
    ret,                \* what the call returned (Pending before it ran)
    \* FaceTracker (camera onFrame throttle)
    now,                \* Date.now()
    lastDetectionTime,  \* FaceTracker.lastDetectionTime
    sending,            \* the faceMesh.send calls in flight, by index in sendLog
    sendLog,            \* history: the start times of the faceMesh.send calls
    \* VirtualTryOnApp
    glassesRenderer,    \* app.glassesRenderer: Null until initializeGlassesRenderer
    previousLandmarks,  \* app.previousLandmarks
    outputCanvas,       \* outputCanvas.width and .height
    context2d,          \* whether canvas.getContext("2d") gives a context on this platform
    \* GlassesRenderer
    currentFrame,       \* renderer.currentFrame
    glassesModel,       \* renderer.glassesModel: Null or a reference into the scene
    scene,              \* the models added to the THREE scene, by reference
    loadedModels,       \* the keys of renderer.loadedModels
    pngImage,           \* renderer.pngImage
    scale, width, heightOffset,
    gltfRequests,       \* GLTFLoader.load calls in flight
    canvas2d,           \* what the 2D context last drew on the canvas
    lastOp,             \* history: what the step just taken did
    detections, frameChanges

vars == << call, ret, now, lastDetectionTime, sending, sendLog, glassesRenderer,
           previousLandmarks, outputCanvas, context2d, currentFrame, glassesModel, scene,
           loadedModels, pngImage, scale, width, heightOffset, gltfRequests,
           canvas2d, lastOp, detections, frameChanges >>

pureVars == << call, ret >>
rateVars == << now, lastDetectionTime, sending, sendLog >>
appVars  == << glassesRenderer, previousLandmarks, outputCanvas, context2d, currentFrame,
               glassesModel, scene, loadedModels, pngImage, scale, width,
               heightOffset, gltfRequests, canvas2d, lastOp, detections,
               frameChanges >>

-----------------------------------------------------------------------------
(* JavaScript values *)

\* Objects (arrays, landmarks, results, models) are records, so that any two
\* of them compare; a number is a pair, and a missing number the empty tuple.
Null         == [null |-> TRUE]
Undefined    == [undefined |-> TRUE]
UndefinedNum == <<>>
TypeError    == [error |-> "TypeError"]

\* an array object: its length and its elements
Arr(seq) == [length |-> Len(seq), items |-> seq]
Push(arr, v) == CHOOSE r \in {[length |-> a.length + 1, items |-> Append(a.items, v)] :
                                   a \in {arr}} : TRUE

\* !v for the values the program tests: null, undefined (objects are truthy)
Falsy(v) == v = Null \/ v = Undefined

-----------------------------------------------------------------------------
(* Exact rationals <<n, d>>, d > 0, in lowest terms.                        *)
(* The helpers that recurse or use an argument several times are functions, *)
(* so that TLC evaluates each argument once.                                *)

Rat == Int \X Int

GCD[a \in Nat, b \in Nat] == IF b = 0 THEN a ELSE GCD[b, a % b]

Abs(n) == IF n < 0 THEN -n ELSE n

NormF[n \in Int, d \in Int] ==
    IF n = 0 THEN <<0, 1>>
    ELSE LET s == IF d < 0 THEN -1 ELSE 1
             g == GCD[Abs(n), Abs(d)]
         IN  <<(s * n) \div g, (s * d) \div g>>

Norm(n, d) == NormF[n, d]

Q(n, d) == Norm(n, d)
RAdd(a, b) == Norm(a[1] * b[2] + b[1] * a[2], a[2] * b[2])
RSub(a, b) == Norm(a[1] * b[2] - b[1] * a[2], a[2] * b[2])
RMul(a, b) == Norm(a[1] * b[1], a[2] * b[2])
RDiv(a, b) == Norm(a[1] * b[2], a[2] * b[1])
RNeg(a)    == <<-a[1], a[2]>>
RLe(a, b)  == a[1] * b[2] <= b[1] * a[2]
RLt(a, b)  == a[1] * b[2] < b[1] * a[2]
RMin(a, b) == IF RLe(a, b) THEN a ELSE b
RMax(a, b) == IF RLe(a, b) THEN b ELSE a

Pow2[k \in Nat] == IF k = 0 THEN 1 ELSE 2 * Pow2[k - 1]

-----------------------------------------------------------------------------
(* Floating point: the exact result rounded to MantBits significant bits *)

MantBits == 4

\* n/d, with n, d > 0, rounded to the nearest value with MantBits significant
\* bits, ties to the even significand
RoundPos[n \in Nat, d \in Nat] ==
    IF n >= Pow2[MantBits] * d THEN RMul(<<2, 1>>, RoundPos[n, 2 * d])
    ELSE IF n < Pow2[MantBits - 1] * d THEN RDiv(RoundPos[2 * n, d], <<2, 1>>)
    ELSE LET q == n \div d
             r == n % d
         IN  IF 2 * r > d \/ (2 * r = d /\ q % 2 = 1) THEN <<q + 1, 1>> ELSE <<q, 1>>

Round[a \in Rat] ==
    IF a[1] = 0 THEN <<0, 1>>
    ELSE IF a[1] < 0 THEN RNeg(RoundPos[-a[1], a[2]])
    ELSE RoundPos[a[1], a[2]]

fl(a) == Round[a]

\* a numeric literal of the source, as the parser rounds it
Lit(n, d) == fl(Q(n, d))

AddF[a \in Rat, b \in Rat] == fl(RAdd(a, b))
SubF[a \in Rat, b \in Rat] == fl(RSub(a, b))
MulF[a \in Rat, b \in Rat] == fl(RMul(a, b))
DivF[a \in Rat, b \in Rat] == fl(RDiv(a, b))
MinF[a \in Rat, b \in Rat] == RMin(a, b)
MaxF[a \in Rat, b \in Rat] == RMax(a, b)
AbsF[a \in Rat] == <<Abs(a[1]), a[2]>>
NegF[a \in Rat] == RNeg(a)

\* the operators of the program's arithmetic: +, -, *, /, unary -, Math.min,
\* Math.max, Math.abs
Add(a, b) == AddF[a, b]
Sub(a, b) == SubF[a, b]
Mul(a, b) == MulF[a, b]
Div(a, b) == DivF[a, b]
Neg(a)    == NegF[a]
MathMin(a, b) == MinF[a, b]
MathMax(a, b) == MaxF[a, b]
MathAbs(a)    == AbsF[a]

\* Math.sqrt of n/d, with n, d > 0, correctly rounded
SqrtPos[n \in Nat, d \in Nat] ==
    IF n >= Pow2[2 * MantBits] * d THEN RMul(<<2, 1>>, SqrtPos[n, 4 * d])
    ELSE IF n < Pow2[2 * MantBits - 2] * d THEN RDiv(SqrtPos[4 * n, d], <<2, 1>>)
    ELSE LET m == CHOOSE k \in Pow2[MantBits - 1]..(Pow2[MantBits] - 1) :
                      k * k * d <= n /\ n < (k + 1) * (k + 1) * d
         IN  IF 4 * n >= (2 * m + 1) * (2 * m + 1) * d THEN <<m + 1, 1>> ELSE <<m, 1>>

SqrtF[a \in Rat] == IF a[1] = 0 THEN <<0, 1>> ELSE SqrtPos[a[1], a[2]]

MathSqrt(a) == SqrtF[a]

Zero == <<0, 1>>
One  == <<1, 1>>
Two  == <<2, 1>>

\* v || 0
OrZero(v) == IF v = UndefinedNum \/ v = Zero THEN Zero ELSE v

\* Math.atan2(y, x).  The angle is kept as the direction it names: the
\* integer vector (dy, dx) in lowest terms.  atan2(0, x) is 0 for x >= 0
\* (y - y is +0) and pi for x < 0.
AngleZero == [dy |-> 0, dx |-> 1]
AnglePi   == [dy |-> 0, dx |-> -1]

Atan2F[y \in Rat, x \in Rat] ==
    LET ny == y[1] * x[2]
        nx == x[1] * y[2]
        g  == GCD[Abs(ny), Abs(nx)]
    IN  IF ny = 0 THEN (IF nx >= 0 THEN AngleZero ELSE AnglePi)
        ELSE [dy |-> ny \div g, dx |-> nx \div g]

MathAtan2(y, x) == Atan2F[y, x]

-----------------------------------------------------------------------------
(* Landmark frames *)

\* The mesh indices the program reads.  A frame of the model keeps the
\* landmarks at these indices only, in the order of the mesh.
NoseTipIdx        == 1
LeftEyeOuterIdx   == 33
LeftEyeCenterIdx  == 159
RightEyeOuterIdx  == 263
RightEyeCenterIdx == 386

MeshIndices ==
    <<NoseTipIdx, LeftEyeOuterIdx, LeftEyeCenterIdx, RightEyeOuterIdx, RightEyeCenterIdx>>

\* arr[i]: undefined beyond the end of the array
At(arr, i) == IF i \in 1..arr.length THEN arr.items[i] ELSE Undefined

\* landmarks[idx] for a mesh index idx
Landmark(landmarks, idx) ==
    At(landmarks, CHOOSE k \in 1..Len(MeshIndices) : MeshIndices[k] = idx)

LM(x, y, z) == [x |-> x, y |-> y, z |-> z]

-----------------------------------------------------------------------------
(* LandmarkUtils.smoothLandmarks *)

SmoothPoint(previous, current, smoothingFactor) ==
    [x |-> Add(Mul(previous.x, smoothingFactor),
               Mul(current.x, Sub(One, smoothingFactor))),
     y |-> Add(Mul(previous.y, smoothingFactor),
               Mul(current.y, Sub(One, smoothingFactor))),
     z |-> Add(Mul(OrZero(previous.z), smoothingFactor),
               Mul(OrZero(current.z), Sub(One, smoothingFactor)))]

\* the loop of smoothLandmarks from index i on; reading current.x of a missing
\* current landmark throws
RECURSIVE SmoothLoop(_, _, _, _, _)
SmoothLoop(currentLandmarks, previousLandmarks_, smoothingFactor, i, smoothed) ==
    IF i > currentLandmarks.length THEN smoothed
    ELSE LET current  == At(currentLandmarks, i)
             previous == At(previousLandmarks_, i)
         IN  IF ~Falsy(previous)
             THEN IF Falsy(current) THEN TypeError
                  ELSE SmoothLoop(currentLandmarks, previousLandmarks_, smoothingFactor,
                                  i + 1,
                                  Push(smoothed,
                                       SmoothPoint(previous, current, smoothingFactor)))
             ELSE SmoothLoop(currentLandmarks, previousLandmarks_, smoothingFactor,
                             i + 1, Push(smoothed, current))

\* smoothLandmarks that blends the first frame with an all-zero history
smoothLandmarks_BlendColdStart(currentLandmarks, previousLandmarks_, smoothingFactor) ==
    IF Falsy(previousLandmarks_)
    THEN SmoothLoop(currentLandmarks,
                    Arr([k \in 1..currentLandmarks.length |-> LM(Zero, Zero, Zero)]),
                    smoothingFactor, 1, Arr(<<>>))
    ELSE SmoothLoop(currentLandmarks, previousLandmarks_, smoothingFactor, 1, Arr(<<>>))

smoothLandmarks(currentLandmarks, previousLandmarks_, smoothingFactor) ==
    IF Falsy(previousLandmarks_) THEN currentLandmarks
    ELSE SmoothLoop(currentLandmarks, previousLandmarks_, smoothingFactor, 1, Arr(<<>>))

-----------------------------------------------------------------------------
(* FaceTracker.calculateFaceRect *)

\* one step of the scan: the running extremes after one more landmark
RectStep(acc, landmark) ==
    CHOOSE r \in {[minX |-> MathMin(m.minX, landmark.x),
                   minY |-> MathMin(m.minY, landmark.y),
                   maxX |-> MathMax(m.maxX, landmark.x),
                   maxY |-> MathMax(m.maxY, landmark.y)] : m \in {acc}} : TRUE

\* the scan from index i on; reading landmark.x of a missing landmark throws
RECURSIVE RectLoop(_, _, _)
RectLoop(landmarks, i, acc) ==
    IF i > landmarks.length THEN acc
    ELSE IF Falsy(At(landmarks, i)) THEN TypeError
    ELSE RectLoop(landmarks, i + 1, RectStep(acc, At(landmarks, i)))

RectInit == [minX |-> One, minY |-> One, maxX |-> Zero, maxY |-> Zero]

RectOf(m) ==
    IF m = TypeError THEN TypeError
    ELSE [x       |-> m.minX,
          y       |-> m.minY,
          width   |-> Sub(m.maxX, m.minX),
          height  |-> Sub(m.maxY, m.minY),
          centerX |-> Div(Add(m.minX, m.maxX), Two),
          centerY |-> Div(Add(m.minY, m.maxY), Two)]

calculateFaceRect(landmarks) ==
    IF Falsy(landmarks) \/ landmarks.length = 0 THEN Null
    ELSE CHOOSE r \in {RectOf(m) : m \in {RectLoop(landmarks, 1, RectInit)}} : TRUE

-----------------------------------------------------------------------------
(* FaceTracker.calculateHeadPose *)

\* the constant 0.1 of the yaw and pitch proxies
PoseK == Lit(1, 10)

\* calculateHeadPose with the arguments of the roll's atan2 exchanged
calculateHeadPose_RollSwapped(keyLandmarks) ==
    IF \/ Falsy(keyLandmarks.leftEyeCenter)
       \/ Falsy(keyLandmarks.rightEyeCenter)
       \/ Falsy(keyLandmarks.noseTip)
    THEN [pitch |-> AngleZero, yaw |-> AngleZero, roll |-> AngleZero]
    ELSE LET leftEye  == keyLandmarks.leftEyeCenter
             rightEye == keyLandmarks.rightEyeCenter
             nose     == keyLandmarks.noseTip
         IN  [pitch |-> MathAtan2(Sub(nose.y, Div(Add(leftEye.y, rightEye.y), Two)),
                                  Lit(1, 10)),
              yaw   |-> MathAtan2(Sub(nose.x, Div(Add(leftEye.x, rightEye.x), Two)),
                                  Lit(1, 10)),
              roll  |-> MathAtan2(Sub(rightEye.x, leftEye.x),
                                  Sub(rightEye.y, leftEye.y))]

calculateHeadPose(keyLandmarks) ==
    IF \/ Falsy(keyLandmarks.leftEyeCenter)
       \/ Falsy(keyLandmarks.rightEyeCenter)
       \/ Falsy(keyLandmarks.noseTip)
    THEN [pitch |-> AngleZero, yaw |-> AngleZero, roll |-> AngleZero]
    ELSE LET leftEye     == keyLandmarks.leftEyeCenter
             rightEye    == keyLandmarks.rightEyeCenter
             nose        == keyLandmarks.noseTip
             eyeDeltaX   == Sub(rightEye.x, leftEye.x)
             eyeDeltaY   == Sub(rightEye.y, leftEye.y)
             eyeCenterX  == Div(Add(leftEye.x, rightEye.x), Two)
             noseOffsetX == Sub(nose.x, eyeCenterX)
             eyeCenterY  == Div(Add(leftEye.y, rightEye.y), Two)
             noseOffsetY == Sub(nose.y, eyeCenterY)
         IN  [pitch |-> MathAtan2(noseOffsetY, PoseK),
              yaw   |-> MathAtan2(noseOffsetX, PoseK),
              roll  |-> MathAtan2(eyeDeltaY, eyeDeltaX)]

-----------------------------------------------------------------------------
(* FaceTracker.processResults *)

KeyLandmarks(landmarks) ==
    [leftEyeOuter   |-> Landmark(landmarks, LeftEyeOuterIdx),
     leftEyeCenter  |-> Landmark(landmarks, LeftEyeCenterIdx),
     rightEyeOuter  |-> Landmark(landmarks, RightEyeOuterIdx),
     rightEyeCenter |-> Landmark(landmarks, RightEyeCenterIdx),
     noseTip        |-> Landmark(landmarks, NoseTipIdx)]

\* null without a face; TypeError when calculateFaceRect throws
processResults(results) ==
    IF Falsy(results.multiFaceLandmarks) \/ results.multiFaceLandmarks.length = 0
    THEN Null
    ELSE LET landmarks == At(results.multiFaceLandmarks, 1)
             faceRect  == calculateFaceRect(landmarks)
         IN  IF faceRect = TypeError THEN TypeError
             ELSE [landmarks    |-> landmarks,
                   keyLandmarks |-> KeyLandmarks(landmarks),
                   faceRect     |-> faceRect,
                   headPose     |-> calculateHeadPose(KeyLandmarks(landmarks))]

-----------------------------------------------------------------------------
(* GlassesRenderer: the placement of the model *)

\* a reference to a THREE object of the scene
Ref(n) == [ref |-> n]

\* the model of scene.gltf as the success callback leaves it: centred, scaled to
\* 0.15, not yet placed by any updateGlasses (from is history: the inputs of
\* the update that wrote the transform)
GltfModel ==
    [position |-> [x |-> Zero, y |-> Zero, z |-> Zero],
     rotation |-> AngleZero,
     scale    |-> Lit(15, 100),
     visible  |-> TRUE,
     from     |-> Null]

\* the 2D canvas with nothing drawn on it
NoImage == [drawn |-> FALSE]

\* this.createGlassesGeometry(frameType): the class defines no such method,
\* so the call throws a TypeError
createGlassesGeometry(frameType) == TypeError

normalizedToWorld(landmark, canvasWidth, canvasHeight) ==
    LET aspect == Div(canvasWidth, canvasHeight)
    IN  [x |-> Mul(Mul(Sub(landmark.x, Lit(1, 2)), Two), aspect),
         y |-> Mul(Neg(Sub(landmark.y, Lit(1, 2))), Two),
         z |-> OrZero(landmark.z)]

\* the position, rotation and scale updateGlasses computes for the 3D model
Placement(leftEye, rightEye, canvasWidth, canvasHeight, scale_, width_, heightOffset_) ==
    LET leftEyeWorld  == normalizedToWorld(leftEye, canvasWidth, canvasHeight)
        rightEyeWorld == normalizedToWorld(rightEye, canvasWidth, canvasHeight)
        centerX     == Div(Add(leftEyeWorld.x, rightEyeWorld.x), Two)
        centerY     == Add(Div(Add(leftEyeWorld.y, rightEyeWorld.y), Two),
                           Mul(heightOffset_, Lit(1, 1000)))
        eyeDistance == MathAbs(Sub(rightEyeWorld.x, leftEyeWorld.x))
        baseScale   == Mul(eyeDistance, Lit(8, 10))
        finalScale  == Mul(Mul(baseScale, scale_), width_)
        angle       == MathAtan2(Sub(rightEyeWorld.y, leftEyeWorld.y),
                                 Sub(rightEyeWorld.x, leftEyeWorld.x))
    IN  [position |-> [x |-> centerX, y |-> centerY, z |-> Zero],
         rotation |-> angle,
         scale    |-> finalScale]

\* the rectangle the PNG path draws
PngRect(leftEye, rightEye, canvasWidth, canvasHeight, scale_, image) ==
    LET left  == normalizedToWorld(leftEye, canvasWidth, canvasHeight)
        right == normalizedToWorld(rightEye, canvasWidth, canvasHeight)
        dx == Sub(right.x, left.x)
        dy == Sub(right.y, left.y)
        eyeDistance   == MathSqrt(Add(Mul(dx, dx), Mul(dy, dy)))
        glassesWidth  == Mul(Mul(eyeDistance, Lit(25, 10)), scale_)
        glassesHeight == Mul(Div(image.height, image.width), glassesWidth)
        centerX == Add(Div(Add(left.x, right.x), Two), Div(canvasWidth, Two))
        centerY == Add(Div(Add(left.y, right.y), Two), Div(canvasHeight, Two))
    IN  [drawn  |-> TRUE,
         x      |-> Sub(centerX, Div(glassesWidth, Two)),
         y      |-> Sub(centerY, Div(glassesHeight, Two)),
         width  |-> glassesWidth,
         height |-> glassesHeight]

TheInputs(landmarks, canvasWidth, canvasHeight) ==
    [landmarks |-> landmarks, canvasWidth |-> canvasWidth, canvasHeight |-> canvasHeight,
     scale |-> scale, width |-> width, heightOffset |-> heightOffset]

\* updateGlasses that stops after writing the position and the rotation
updateGlasses_NoScale(landmarks, canvasWidth, canvasHeight) ==
    IF \/ (currentFrame = "png" /\ pngImage # Null)
       \/ glassesModel = Null \/ Falsy(landmarks)
       \/ Falsy(Landmark(landmarks, LeftEyeOuterIdx)) \/ Falsy(Landmark(landmarks, RightEyeOuterIdx))
    THEN [scene |-> scene, canvas2d |-> canvas2d]
    ELSE LET t == Placement(Landmark(landmarks, LeftEyeOuterIdx), Landmark(landmarks, RightEyeOuterIdx),
                            canvasWidth, canvasHeight, scale, width, heightOffset)
         IN  [scene |-> [scene EXCEPT ![glassesModel.ref] =
                            [@ EXCEPT !.position = t.position, !.rotation = t.rotation,
                                      !.from = TheInputs(landmarks, canvasWidth, canvasHeight)]],
              canvas2d |-> canvas2d]

\* updateGlasses that moves the model to the origin when an eye is missing
updateGlasses_SnapToOrigin(landmarks, canvasWidth, canvasHeight) ==
    IF \/ (currentFrame = "png" /\ pngImage # Null)
       \/ glassesModel = Null \/ Falsy(landmarks)
    THEN [scene |-> scene, canvas2d |-> canvas2d]
    ELSE LET l == Landmark(landmarks, LeftEyeOuterIdx)
             r == Landmark(landmarks, RightEyeOuterIdx)
             t == IF Falsy(l) \/ Falsy(r)
                  THEN [position |-> [x |-> Zero, y |-> Zero, z |-> Zero],
                        rotation |-> AngleZero, scale |-> Zero]
                  ELSE Placement(l, r, canvasWidth, canvasHeight, scale, width, heightOffset)
         IN  [scene |-> [scene EXCEPT ![glassesModel.ref] =
                            [@ EXCEPT !.position = t.position, !.rotation = t.rotation,
                                      !.scale = t.scale, !.visible = TRUE,
                                      !.from = TheInputs(landmarks, canvasWidth, canvasHeight)]],
              canvas2d |-> canvas2d]

\* GlassesRenderer.updateGlasses: the scene and the 2D canvas it leaves
updateGlasses(landmarks, canvasWidth, canvasHeight) ==
    IF currentFrame = "png" /\ pngImage # Null
    THEN LET leftEye  == Landmark(landmarks, LeftEyeOuterIdx)
             rightEye == Landmark(landmarks, RightEyeOuterIdx)
         IN  \* getContext("2d") is null on a canvas that has a WebGL context,
             \* and ctx.clearRect then throws; otherwise clearRect, then
             \* drawImage unless an eye is missing; an image that has not
             \* loaded has no size and draws nothing
             IF ~context2d THEN TypeError
             ELSE IF Falsy(leftEye) \/ Falsy(rightEye) \/ ~pngImage.complete
             THEN [scene |-> scene, canvas2d |-> NoImage]
             ELSE [scene |-> scene,
                   canvas2d |-> PngRect(leftEye, rightEye, canvasWidth, canvasHeight,
                                        scale, pngImage)]
    ELSE IF glassesModel = Null \/ Falsy(landmarks)
    THEN [scene |-> scene, canvas2d |-> canvas2d]
    ELSE LET leftEye  == Landmark(landmarks, LeftEyeOuterIdx)
             rightEye == Landmark(landmarks, RightEyeOuterIdx)
         IN  IF Falsy(leftEye) \/ Falsy(rightEye)
             THEN [scene |-> scene, canvas2d |-> canvas2d]
             ELSE LET t == Placement(leftEye, rightEye, canvasWidth, canvasHeight,
                                     scale, width, heightOffset)
                  IN  [scene |-> [scene EXCEPT ![glassesModel.ref] =
                                     [@ EXCEPT !.position = t.position,
                                               !.rotation = t.rotation,
                                               !.scale = t.scale,
                                               !.visible = TRUE,
                                               !.from = TheInputs(landmarks, canvasWidth,
                                                                  canvasHeight)]],
                       canvas2d |-> canvas2d]

-----------------------------------------------------------------------------
(* GlassesRenderer: loading a model *)

Remove(sc, id) == [i \in DOMAIN sc \ {id} |-> sc[i]]
Insert(sc, id, m) == [i \in DOMAIN sc \cup {id} |-> IF i = id THEN m ELSE sc[i]]

\* a reference no object of the scene has
FreshId(sc) == CHOOSE i \in 1..(Cardinality(DOMAIN sc) + 1) :
                   i \notin DOMAIN sc /\ \A j \in 1..(i - 1) : j \in DOMAIN sc

NewImage == [complete |-> FALSE, width |-> Zero, height |-> Zero]

\* GlassesRenderer.loadGlassesModel, with loadGLTFModel and loadPNGGlasses, up
\* to the point where it returns, throws or waits for the loader
loadGlassesModel(frameType) ==
    LET removed == IF glassesModel # Null THEN Remove(scene, glassesModel.ref) ELSE scene
        made    == createGlassesGeometry(frameType)
    IN  /\ currentFrame' = frameType
        /\ UNCHANGED loadedModels
        /\ IF frameType \in {"gltf", "realistic"}
           THEN IF "gltf" \in loadedModels
                THEN /\ glassesModel' = Ref(FreshId(removed))
                     /\ scene' = Insert(removed, FreshId(removed), GltfModel)
                     /\ UNCHANGED << gltfRequests, pngImage >>
                ELSE /\ glassesModel' = Null
                     /\ scene' = removed
                     /\ gltfRequests' = gltfRequests + 1
                     /\ UNCHANGED pngImage
           ELSE IF frameType = "png"
           THEN /\ pngImage' = NewImage
                /\ glassesModel' = Null
                /\ scene' = removed
                /\ UNCHANGED gltfRequests
           ELSE IF made = TypeError
           THEN \* the async function rejects; nobody handles the rejection
                /\ glassesModel' = Null
                /\ scene' = removed
                /\ UNCHANGED << gltfRequests, pngImage >>
           ELSE /\ glassesModel' = Ref(FreshId(removed))
                /\ scene' = Insert(removed, FreshId(removed), made)
                /\ UNCHANGED << gltfRequests, pngImage >>

-----------------------------------------------------------------------------
(* The handlers of the application *)

MaxDetections   == 2
MaxFrameChanges == 2

Renderer == [class |-> "GlassesRenderer"]
Other    == [op |-> "other"]
NotReached == [reached |-> FALSE]

FrameTypes   == {"classic", "gltf", "png"}
ScaleValues  == {One, Q(3, 2)}
WidthValues  == {One, Q(5, 4)}
OffsetValues == {Zero, <<10, 1>>}
PngSizes     == {[width |-> <<512, 1>>, height |-> <<256, 1>>]}

\* frames the detector hands over: positions 1..5 are the mesh indices
\* 1, 33, 159, 263, 386
Face(nose, leftEye, rightEye) == Arr(<<nose, leftEye, leftEye, rightEye, rightEye>>)

\* a level head, to the right of the middle of the image
LevelFace  == Face(LM(Q(5, 8), Q(5, 8), Q(-1, 4)),
                   LM(Q(1, 2), Q(1, 2), UndefinedNum), LM(Q(3, 4), Q(1, 2), UndefinedNum))
\* a head tilted far enough for the slope of the eye line to show at MantBits
TiltedFace == Face(LM(Q(1, 2), Q(3, 4), Q(-1, 4)),
                   LM(Q(3, 8), Q(1, 4), Zero), LM(Q(5, 8), Q(3, 4), Zero))
\* a mesh that ends before index 263, and one with a hole at index 33
NoRightEye == Arr(<<LM(Q(1, 2), Q(5, 8), Zero), LM(Q(3, 8), Q(1, 2), Zero),
                    LM(Q(3, 8), Q(1, 2), Zero)>>)
HoleFace   == Arr(<<LM(Q(1, 2), Q(5, 8), Zero), Undefined, LM(Q(3, 8), Q(1, 2), Zero),
                    LM(Q(5, 8), Q(1, 2), Zero), LM(Q(5, 8), Q(1, 2), Zero)>>)

DetectorFrames == {LevelFace, TiltedFace, NoRightEye, HoleFace}

DetectorResults ==
    {[multiFaceLandmarks |-> Undefined], [multiFaceLandmarks |-> Arr(<<>>)]}
    \cup {[multiFaceLandmarks |-> Arr(<<f>>)] : f \in DetectorFrames}

\* VirtualTryOnApp.initializeGlassesRenderer with GlassesRenderer.init: the
\* initial loadGlassesModel('classic') and the first animate
initializeGlassesRenderer ==
    /\ glassesRenderer = Null
    /\ glassesRenderer' = Renderer
    /\ loadGlassesModel(currentFrame)
    /\ lastOp' = [op |-> "animate", scene |-> scene', glassesModel |-> glassesModel',
                  scale |-> scale, width |-> width, heightOffset |-> heightOffset]
    /\ UNCHANGED << pureVars, rateVars, previousLandmarks, outputCanvas, context2d, scale, width,
                    heightOffset, canvas2d, detections, frameChanges >>

\* FaceTracker.onResults: processResults, then VirtualTryOnApp.onFaceDetected
onResults ==
    /\ detections < MaxDetections
    /\ detections' = detections + 1
    /\ \E results \in DetectorResults :
       \E processed \in {processResults(results)} :
       \E landmarks \in
             {IF processed = TypeError \/ Falsy(processed) \/ glassesRenderer = Null
              THEN NotReached
              ELSE IF previousLandmarks # Null
              THEN smoothLandmarks(processed.landmarks, previousLandmarks, Lit(7, 10))
              ELSE processed.landmarks} :
          IF landmarks = NotReached \/ landmarks = TypeError
          THEN \* no face, no renderer yet, or an exception on the way
               /\ lastOp' = [op |-> "onResults", results |-> results,
                             previous |-> previousLandmarks, passed |-> NotReached]
               /\ UNCHANGED << previousLandmarks, scene, canvas2d >>
          ELSE \E u \in {updateGlasses(landmarks, outputCanvas.width,
                                       outputCanvas.height)} :
                   /\ lastOp' = [op |-> "onResults", results |-> results,
                                 previous |-> previousLandmarks,
                                 passed |-> landmarks]
                   /\ IF u = TypeError
                      THEN \* updateGlasses throws: the assignment of
                           \* previousLandmarks is not reached
                           UNCHANGED << previousLandmarks, scene, canvas2d >>
                      ELSE /\ scene' = u.scene
                           /\ canvas2d' = u.canvas2d
                           /\ previousLandmarks' = landmarks
    /\ UNCHANGED << pureVars, rateVars, glassesRenderer, outputCanvas, context2d, currentFrame,
                    glassesModel, loadedModels, pngImage, scale, width, heightOffset,
                    gltfRequests, frameChanges >>

\* GlassesRenderer.animate: one render tick draws the scene as it stands
animate ==
    /\ glassesRenderer # Null
    /\ lastOp' = [op |-> "animate", scene |-> scene, glassesModel |-> glassesModel,
                  scale |-> scale, width |-> width, heightOffset |-> heightOffset]
    /\ UNCHANGED << pureVars, rateVars, glassesRenderer, previousLandmarks, outputCanvas, context2d,
                    currentFrame, glassesModel, scene, loadedModels, pngImage, scale,
                    width, heightOffset, gltfRequests, canvas2d, detections,
                    frameChanges >>

\* the input handlers of the three sliders (the app forwards to the renderer
\* once it exists)
updateScale ==
    /\ \E value \in ScaleValues :
          scale' = IF glassesRenderer # Null THEN value ELSE scale
    /\ lastOp' = Other
    /\ UNCHANGED << pureVars, rateVars, glassesRenderer, previousLandmarks, outputCanvas, context2d,
                    currentFrame, glassesModel, scene, loadedModels, pngImage, width,
                    heightOffset, gltfRequests, canvas2d, detections, frameChanges >>

updateWidth ==
    /\ \E value \in WidthValues :
          width' = IF glassesRenderer # Null THEN value ELSE width
    /\ lastOp' = Other
    /\ UNCHANGED << pureVars, rateVars, glassesRenderer, previousLandmarks, outputCanvas, context2d,
                    currentFrame, glassesModel, scene, loadedModels, pngImage, scale,
                    heightOffset, gltfRequests, canvas2d, detections, frameChanges >>

updateHeightOffset ==
    /\ \E value \in OffsetValues :
          heightOffset' = IF glassesRenderer # Null THEN value ELSE heightOffset
    /\ lastOp' = Other
    /\ UNCHANGED << pureVars, rateVars, glassesRenderer, previousLandmarks, outputCanvas, context2d,
                    currentFrame, glassesModel, scene, loadedModels, pngImage, scale,
                    width, gltfRequests, canvas2d, detections, frameChanges >>

\* VirtualTryOnApp.changeFrame -> GlassesRenderer.changeFrame -> loadGlassesModel
changeFrame ==
    /\ frameChanges < MaxFrameChanges
    /\ frameChanges' = frameChanges + 1
    /\ \E frameType \in FrameTypes :
          IF glassesRenderer # Null
          THEN loadGlassesModel(frameType)
          ELSE UNCHANGED << currentFrame, glassesModel, scene, loadedModels, pngImage,
                            gltfRequests >>
    /\ lastOp' = Other
    /\ UNCHANGED << pureVars, rateVars, glassesRenderer, previousLandmarks, outputCanvas, context2d,
                    scale, width, heightOffset, canvas2d, detections >>

\* VirtualTryOnApp.resetSettings
resetSettings ==
    /\ frameChanges < MaxFrameChanges
    /\ frameChanges' = frameChanges + 1
    /\ IF glassesRenderer # Null
       THEN /\ scale' = One /\ width' = One /\ heightOffset' = Zero
            /\ loadGlassesModel("classic")
       ELSE UNCHANGED << scale, width, heightOffset, currentFrame, glassesModel, scene,
                         loadedModels, pngImage, gltfRequests >>
    /\ lastOp' = Other
    /\ UNCHANGED << pureVars, rateVars, glassesRenderer, previousLandmarks, outputCanvas, context2d,
                    canvas2d, detections >>

\* the success callback of gltfLoader.load
gltfLoaded ==
    /\ gltfRequests > 0
    /\ gltfRequests' = gltfRequests - 1
    /\ loadedModels' = loadedModels \cup {"gltf"}
    /\ glassesModel' = Ref(FreshId(scene))
    /\ scene' = Insert(scene, FreshId(scene), GltfModel)
    /\ lastOp' = [op |-> "gltfLoaded", resolved |-> TRUE, threw |-> FALSE,
                  glassesModel |-> glassesModel', scene |-> scene']
    /\ UNCHANGED << pureVars, rateVars, glassesRenderer, previousLandmarks, outputCanvas, context2d,
                    currentFrame, pngImage, scale, width, heightOffset, canvas2d,
                    detections, frameChanges >>

\* the error callback of gltfLoader.load: createGlassesGeometry('classic'),
\* scene.add, resolve
gltfError ==
    /\ gltfRequests > 0
    /\ gltfRequests' = gltfRequests - 1
    /\ LET made == createGlassesGeometry("classic")
       IN  IF made = TypeError
           THEN \* the callback throws before scene.add and resolve
                /\ lastOp' = [op |-> "gltfError", resolved |-> FALSE, threw |-> TRUE,
                              glassesModel |-> glassesModel, scene |-> scene]
                /\ UNCHANGED << glassesModel, scene >>
           ELSE /\ glassesModel' = Ref(FreshId(scene))
                /\ scene' = Insert(scene, FreshId(scene), made)
                /\ lastOp' = [op |-> "gltfError", resolved |-> TRUE, threw |-> FALSE,
                              glassesModel |-> glassesModel', scene |-> scene']
    /\ UNCHANGED << pureVars, rateVars, glassesRenderer, previousLandmarks, outputCanvas, context2d,
                    currentFrame, loadedModels, pngImage, scale, width, heightOffset,
                    canvas2d, detections, frameChanges >>

\* pngImage.onload: the image has its size from here on
pngLoaded ==
    /\ pngImage # Null
    /\ ~pngImage.complete
    /\ \E size \in PngSizes :
          pngImage' = [complete |-> TRUE, width |-> size.width, height |-> size.height]
    /\ lastOp' = Other
    /\ UNCHANGED << pureVars, rateVars, glassesRenderer, previousLandmarks, outputCanvas, context2d,
                    currentFrame, glassesModel, scene, loadedModels, scale, width,
                    heightOffset, gltfRequests, canvas2d, detections, frameChanges >>

CanvasSizes == {[width |-> <<640, 1>>, height |-> <<480, 1>>]}

\* the state once the constructors have run and the camera has started
Init ==
    /\ call = [fn |-> "none"] /\ ret = Null
    /\ now = 0 /\ lastDetectionTime = 0 /\ sending = {} /\ sendLog = <<>>
    /\ glassesRenderer = Null /\ previousLandmarks = Null
    /\ outputCanvas \in CanvasSizes /\ context2d \in BOOLEAN
    /\ currentFrame = "classic" /\ glassesModel = Null /\ scene = <<>>
    /\ loadedModels = {} /\ pngImage = Null
    /\ scale = One /\ width = One /\ heightOffset = Zero
    /\ gltfRequests = 0 /\ canvas2d = NoImage
    /\ lastOp = [op |-> "construct"]
    /\ detections = 0 /\ frameChanges = 0

Next ==
    \/ initializeGlassesRenderer
    \/ onResults
    \/ animate
    \/ updateScale
    \/ updateWidth
    \/ updateHeightOffset
    \/ changeFrame
    \/ resetSettings
    \/ gltfLoaded
    \/ gltfError
    \/ pngLoaded

Spec == Init /\ [][Next]_vars

-----------------------------------------------------------------------------
(* FaceTracker: the camera's onFrame callback and the detector's send *)

detectionInterval == 33

StartTime == 100
MaxTime   == 180
MaxSends  == 3

\* the clock advances
Tick ==
    /\ \E dt \in {16, 17} :
          /\ now + dt <= MaxTime
          /\ now' = now + dt
    /\ UNCHANGED << pureVars, lastDetectionTime, sending, sendLog, appVars >>

\* onFrame up to its await: currentTime = Date.now(), the test of the interval,
\* and the start of faceMesh.send.  sending holds the sends in flight, by
\* their index in sendLog; sendLog[i] is the currentTime of the onFrame that
\* started send i.
onFrame ==
    /\ Len(sendLog) < MaxSends
    /\ IF now - lastDetectionTime >= detectionInterval
       THEN /\ sendLog' = Append(sendLog, now)
            /\ sending' = sending \cup {Len(sendLog) + 1}
       ELSE UNCHANGED << sendLog, sending >>
    /\ UNCHANGED << pureVars, now, lastDetectionTime, appVars >>

\* faceMesh.send resolves and onFrame resumes:
\* this.lastDetectionTime = currentTime
sendResolved ==
    /\ \E i \in sending :
          /\ sending' = sending \ {i}
          /\ lastDetectionTime' = sendLog[i]
    /\ UNCHANGED << pureVars, now, sendLog, appVars >>

\* faceMesh.send rejects: the await throws and onFrame ends without the
\* assignment
sendRejected ==
    /\ \E i \in sending : sending' = sending \ {i}
    /\ UNCHANGED << pureVars, now, lastDetectionTime, sendLog, appVars >>

InitRate ==
    /\ call = [fn |-> "none"] /\ ret = Null
    /\ now = StartTime /\ lastDetectionTime = 0 /\ sending = {} /\ sendLog = <<>>
    /\ glassesRenderer = Null /\ previousLandmarks = Null
    /\ outputCanvas \in CanvasSizes /\ context2d = TRUE
    /\ currentFrame = "classic" /\ glassesModel = Null /\ scene = <<>>
    /\ loadedModels = {} /\ pngImage = Null
    /\ scale = One /\ width = One /\ heightOffset = Zero
    /\ gltfRequests = 0 /\ canvas2d = NoImage
    /\ lastOp = [op |-> "construct"]
    /\ detections = 0 /\ frameChanges = 0

RateNext ==
    \/ Tick
    \/ onFrame
    \/ sendResolved
    \/ sendRejected

SpecRate == InitRate /\ [][RateNext]_vars

-----------------------------------------------------------------------------
(* The pure functions, called on inputs from bounded sets *)

\* ret before the call has run
Pending == [pending |-> TRUE]

\* landmark coordinates, inside and outside [0, 1]; each has at most MantBits
\* significant bits, as every value the detector hands over is a number
Coords == {Q(-1, 2), Zero, Q(1, 4), Q(1, 2), Q(5, 8), Q(3, 4), Q(7, 8), One, Q(3, 2)}

SmoothPoints ==
    {LM(Q(1, 2), Q(7, 8), UndefinedNum), LM(Q(5, 8), Q(3, 4), Q(1, 4)),
     LM(Q(7, 8), Q(1, 4), Zero),      LM(Q(3, 4), Q(5, 8), Q(-1, 2)),
     LM(Q(15, 16), Q(1, 2), UndefinedNum)}

MaxSmoothLen == 2

FramesOver(points, maxLen) ==
    {Arr(s) : s \in UNION {[1..n -> points] : n \in 0..maxLen}}

SmoothFrames == FramesOver(SmoothPoints \cup {Undefined}, MaxSmoothLen)

\* smoothing factors in [0, 1]: 0, 0.3, 0.5, 0.7 (the program's), 1
SmoothingFactors == {Zero, Lit(3, 10), Q(1, 2), Lit(7, 10), One}

SmoothCalls ==
    {[fn |-> "smoothLandmarks", F |-> F, P |-> P, a |-> a] :
        F \in SmoothFrames, P \in SmoothFrames \cup {Null}, a \in SmoothingFactors}

Call_smoothLandmarks ==
    /\ call.fn = "smoothLandmarks" /\ ret = Pending
    /\ ret' = smoothLandmarks(call.F, call.P, call.a)
    /\ UNCHANGED << call, rateVars, appVars >>

MaxRectLen == 2

RectPoints == {LM(x, y, UndefinedNum) : x \in Coords, y \in {Q(-1, 2), Q(1, 4), Q(3, 4), Q(3, 2)}}

RectCalls ==
    {[fn |-> "calculateFaceRect", landmarks |-> landmarks] :
        landmarks \in FramesOver(RectPoints, MaxRectLen)}

Call_calculateFaceRect ==
    /\ call.fn = "calculateFaceRect" /\ ret = Pending
    /\ ret' = calculateFaceRect(call.landmarks)
    /\ UNCHANGED << call, rateVars, appVars >>

PoseCoords == {Q(1, 4), Q(1, 2), Q(5, 8), Q(3, 4)}
PosePoints == {LM(x, y, UndefinedNum) : x \in PoseCoords, y \in {Q(1, 4), Q(1, 2)}}

PoseCalls ==
    {[fn |-> "calculateHeadPose",
      keyLandmarks |-> [leftEyeCenter |-> l, rightEyeCenter |-> r, noseTip |-> n]] :
        l \in PosePoints \cup {Undefined}, r \in PosePoints \cup {Undefined},
        n \in PosePoints \cup {Undefined}}

Call_calculateHeadPose ==
    /\ call.fn = "calculateHeadPose" /\ ret = Pending
    /\ ret' = calculateHeadPose(call.keyLandmarks)
    /\ UNCHANGED << call, rateVars, appVars >>

PureNext ==
    \/ Call_smoothLandmarks
    \/ Call_calculateFaceRect
    \/ Call_calculateHeadPose

InitPure ==
    /\ call \in SmoothCalls \cup RectCalls \cup PoseCalls
    /\ ret = Pending
    /\ now = 0 /\ lastDetectionTime = 0 /\ sending = {} /\ sendLog = <<>>
    /\ glassesRenderer = Null /\ previousLandmarks = Null
    /\ outputCanvas = [width |-> <<640, 1>>, height |-> <<480, 1>>] /\ context2d = TRUE
    /\ currentFrame = "classic" /\ glassesModel = Null /\ scene = <<>>
    /\ loadedModels = {} /\ pngImage = Null
    /\ scale = One /\ width = One /\ heightOffset = Zero
    /\ gltfRequests = 0 /\ canvas2d = NoImage
    /\ lastOp = [op |-> "construct"]
    /\ detections = 0 /\ frameChanges = 0

SpecPure == InitPure /\ [][PureNext]_vars

-----------------------------------------------------------------------------
(* Claims about the pure functions (checked under SpecPure) *)

Smoothed == call.fn = "smoothLandmarks" /\ ret # Pending

\* a frame without holes
Full(frame) == \A i \in 1..frame.length : At(frame, i) # Undefined

Between(v, a, b) == RLe(RMin(a, b), v) /\ RLe(v, RMax(a, b))

\* two landmarks with equal coordinates, a missing z read as 0
SamePoint(p, q) == p.x = q.x /\ p.y = q.y /\ OrZero(p.z) = OrZero(q.z)

EqualLengthCall ==
    /\ Smoothed /\ call.P # Null
    /\ call.F.length = call.P.length
    /\ Full(call.F) /\ Full(call.P)

\* C6 (as claimed): for frames F and P of equal length and a factor in [0, 1],
\* every coordinate of smoothLandmarks(F, P, a)[i] lies between the
\* coordinates of F[i] and P[i] inclusive; with a = 1 the output equals P and
\* with a = 0 it equals F.
C6_ConvexCombination ==
    EqualLengthCall =>
        /\ ret # TypeError /\ ret.length = call.F.length
        /\ \A i \in 1..call.F.length :
              LET f == At(call.F, i)
                  q == At(call.P, i)
                  o == At(ret, i)
              IN  /\ Between(o.x, f.x, q.x)
                  /\ Between(o.y, f.y, q.y)
                  /\ Between(o.z, OrZero(f.z), OrZero(q.z))
                  /\ (call.a = One => SamePoint(o, q))
                  /\ (call.a = Zero => SamePoint(o, f))

\* the endpoints alone: a = 1 gives P, a = 0 gives F
C6_Endpoints ==
    EqualLengthCall =>
        \A i \in 1..call.F.length :
            /\ (call.a = One => SamePoint(At(ret, i), At(call.P, i)))
            /\ (call.a = Zero => SamePoint(At(ret, i), At(call.F, i)))

MismatchCall ==
    /\ Smoothed /\ call.P # Null
    /\ call.F.length # call.P.length
    /\ Full(call.F) /\ Full(call.P)

\* C8 (as claimed): when the current and the previous frame differ in length,
\* smoothLandmarks fails or returns the current frame entirely unsmoothed, and
\* an output it returns has the current frame's length.
C8_LengthMismatchPolicy ==
    MismatchCall =>
        \/ ret = TypeError
        \/ ret = call.F

\* the part of C8 that the code keeps: the output has the current frame's length
C8_OutputLength ==
    MismatchCall => ret # TypeError /\ ret.length = call.F.length

RectDone == call.fn = "calculateFaceRect" /\ ret # Pending

RECURSIVE MinOver(_, _, _)
MinOver(frame, i, coord) ==
    IF i = frame.length THEN At(frame, i)[coord]
    ELSE RMin(At(frame, i)[coord], MinOver(frame, i + 1, coord))

RECURSIVE MaxOver(_, _, _)
MaxOver(frame, i, coord) ==
    IF i = frame.length THEN At(frame, i)[coord]
    ELSE RMax(At(frame, i)[coord], MaxOver(frame, i + 1, coord))

\* C9 (as claimed): for every non-empty frame, whatever its coordinates,
\* calculateFaceRect returns x = min x, y = min y, width = max x - min x,
\* height = max y - min y and the midpoints of the extremes as the center.
C9_BoundingRect ==
    (RectDone /\ call.landmarks.length > 0) =>
        LET minX == MinOver(call.landmarks, 1, "x")
            maxX == MaxOver(call.landmarks, 1, "x")
            minY == MinOver(call.landmarks, 1, "y")
            maxY == MaxOver(call.landmarks, 1, "y")
        IN  ret = [x       |-> minX,
                   y       |-> minY,
                   width   |-> Sub(maxX, minX),
                   height  |-> Sub(maxY, minY),
                   centerX |-> Div(Add(minX, maxX), Two),
                   centerY |-> Div(Add(minY, maxY), Two)]

\* the same statement for frames with a landmark on or inside the unit square
\* in each coordinate: there the code's initial extremes (1 and 0) do not show
C9_BoundingRectInRange ==
    (/\ RectDone /\ call.landmarks.length > 0
     /\ \A c \in {"x", "y"} :
           /\ RLe(MinOver(call.landmarks, 1, c), One)
           /\ RLe(Zero, MaxOver(call.landmarks, 1, c)))
    => C9_BoundingRect

PoseDone == call.fn = "calculateHeadPose" /\ ret # Pending

PoseAllPresent ==
    /\ call.keyLandmarks.leftEyeCenter # Undefined
    /\ call.keyLandmarks.rightEyeCenter # Undefined
    /\ call.keyLandmarks.noseTip # Undefined

\* nose.x is the mean of the two eye x values, in exact arithmetic
NoseAtEyeMean ==
    RMul(Two, call.keyLandmarks.noseTip.x)
        = RAdd(call.keyLandmarks.leftEyeCenter.x, call.keyLandmarks.rightEyeCenter.x)

EyesLevel == call.keyLandmarks.leftEyeCenter.y = call.keyLandmarks.rightEyeCenter.y

\* C10 (as claimed): with the three landmarks present, roll = 0 whenever the
\* eyes have equal y, whatever their x order, and yaw = 0 whenever nose.x is
\* the mean of the eye x values; with a landmark absent the pose is all zero.
C10_HeadPoseZeroCases ==
    PoseDone =>
        IF PoseAllPresent
        THEN /\ (EyesLevel => ret.roll = AngleZero)
             /\ (NoseAtEyeMean => ret.yaw = AngleZero)
        ELSE ret = [pitch |-> AngleZero, yaw |-> AngleZero, roll |-> AngleZero]

\* C10 (amended): roll = 0 whenever the eyes have equal y and the right eye
\* center's x is not less than the left eye center's (with the x order reversed
\* the roll is pi); yaw = 0 whenever nose.x is the mean of the eye x values;
\* with a landmark absent the pose is all zero.
C10_HeadPoseZeroCasesAmended ==
    PoseDone =>
        IF PoseAllPresent
        THEN /\ (EyesLevel =>
                    ret.roll = IF RLe(call.keyLandmarks.leftEyeCenter.x,
                                      call.keyLandmarks.rightEyeCenter.x)
                               THEN AngleZero ELSE AnglePi)
             /\ (NoseAtEyeMean => ret.yaw = AngleZero)
        ELSE ret = [pitch |-> AngleZero, yaw |-> AngleZero, roll |-> AngleZero]

\* level eyes in the usual order with the nose at their mean, and a zero roll and yaw
C10_Witness ==
    /\ PoseDone /\ PoseAllPresent /\ EyesLevel /\ NoseAtEyeMean
    /\ RLt(call.keyLandmarks.leftEyeCenter.x, call.keyLandmarks.rightEyeCenter.x)
    /\ ret.roll = AngleZero /\ ret.yaw = AngleZero
    /\ ret.pitch # AngleZero

-----------------------------------------------------------------------------
(* Claims about the camera callback (checked under SpecRate) *)

\* C1: any two submissions of a frame to the detector are started at least
\* detectionInterval apart, also when onFrame is invoked while an earlier
\* onFrame still awaits faceMesh.send.
C1_DetectionRateLimit ==
    \A i, j \in DOMAIN sendLog :
        i < j => sendLog[j] - sendLog[i] >= detectionInterval

-----------------------------------------------------------------------------
(* Claims about the application (checked under Spec) *)

Untouched(m) ==
    /\ m.position = GltfModel.position
    /\ m.rotation = GltfModel.rotation
    /\ m.scale = GltfModel.scale

\* the transform of m is the one computed from the frame `from` with the
\* parameters p
PlacedFrom(m, from, p) ==
    LET t == Placement(Landmark(from.landmarks, LeftEyeOuterIdx),
                       Landmark(from.landmarks, RightEyeOuterIdx),
                       from.canvasWidth, from.canvasHeight,
                       p.scale, p.width, p.heightOffset)
    IN  m.position = t.position /\ m.rotation = t.rotation /\ m.scale = t.scale

\* C2: the (position, rotation, scale) a render tick observes on a model was
\* computed from one landmark frame and one set of overlay parameters (those
\* of the last update of the model), or is the transform the model was loaded
\* with; it is never a mix of fields from two updates.
C2_AtomicPlacement ==
    lastOp.op = "animate" =>
        \A id \in DOMAIN lastOp.scene :
            LET m == lastOp.scene[id]
            IN  IF m.from = Null THEN Untouched(m) ELSE PlacedFrom(m, m.from, m.from)

\* a render tick observes a model that two detections have placed, the second
\* one with other parameters than the defaults
C2_Witness ==
    /\ lastOp.op = "animate"
    /\ detections = 2
    /\ \E id \in DOMAIN lastOp.scene :
          /\ lastOp.scene[id].from # Null
          /\ lastOp.scene[id].from.landmarks = previousLandmarks
          /\ lastOp.scene[id].from.scale # One

\* the detector's result has no face, or its frame lacks landmark 33 or 263
NoFaceOrEye(results) ==
    \/ Falsy(results.multiFaceLandmarks)
    \/ results.multiFaceLandmarks.length = 0
    \/ Falsy(Landmark(At(results.multiFaceLandmarks, 1), LeftEyeOuterIdx))
    \/ Falsy(Landmark(At(results.multiFaceLandmarks, 1), RightEyeOuterIdx))

\* C3: a detection cycle that yields no face, or whose frame lacks landmark 33
\* or landmark 263, leaves the position, rotation and scale of every model of
\* the scene as they were.
C3_NoDetectionPolicy ==
    [][(detections' = detections + 1 /\ NoFaceOrEye(lastOp'.results)) => scene' = scene]_vars

\* a cycle without a usable pair of eyes has run while a placed model is in
\* the scene
C3_Witness ==
    /\ lastOp.op = "onResults"
    /\ NoFaceOrEye(lastOp.results)
    /\ glassesRenderer # Null
    /\ glassesModel # Null
    /\ scene[glassesModel.ref].from # Null

\* C4: whenever the GLTF loader's error callback fires, the load's promise
\* resolves, no error leaves the callback, and the renderer ends with a
\* non-null model that is in the scene.
C4_LoadFailureRecovery ==
    lastOp.op = "gltfError" =>
        /\ lastOp.resolved
        /\ ~lastOp.threw
        /\ lastOp.glassesModel # Null
        /\ lastOp.glassesModel.ref \in DOMAIN lastOp.scene

\* C5: a render tick draws the placed model with a placement computed from
\* the parameter values most recently set, whether or not a detection has
\* arrived since they were set.
C5_ParametersOnNextTick ==
    (/\ lastOp.op = "animate"
     /\ lastOp.glassesModel # Null
     /\ lastOp.scene[lastOp.glassesModel.ref].from # Null)
    => LET m == lastOp.scene[lastOp.glassesModel.ref]
       IN  PlacedFrom(m, m.from, lastOp)

\* C7: smoothLandmarks(F, null) is F, and a frame that arrives while no
\* previous frame is stored is handed to updateGlasses as the detector gave it.
C7_ColdStart ==
    (/\ lastOp.op = "onResults"
     /\ lastOp.previous = Null
     /\ lastOp.passed # NotReached)
    => LET F == At(lastOp.results.multiFaceLandmarks, 1)
       IN  /\ lastOp.passed = F
           /\ smoothLandmarks(F, Null, Lit(7, 10)) = F

\* the first frame with a face has reached updateGlasses and has placed a model
C7_Witness ==
    /\ lastOp.op = "onResults"
    /\ lastOp.previous = Null
    /\ lastOp.passed # NotReached
    /\ lastOp.passed = previousLandmarks
    /\ glassesModel # Null
    /\ scene[glassesModel.ref].from # Null
    /\ scene[glassesModel.ref].from.landmarks = lastOp.passed

\* the two eye points of the frame `from`, converted by normalizedToWorld
EyesWorld(from) ==
    [left  |-> normalizedToWorld(Landmark(from.landmarks, LeftEyeOuterIdx),
                                 from.canvasWidth, from.canvasHeight),
     right |-> normalizedToWorld(Landmark(from.landmarks, RightEyeOuterIdx),
                                 from.canvasWidth, from.canvasHeight)]

\* the Euclidean distance between the two converted eye points
EuclideanEyeDistance(from) ==
    LET e  == EyesWorld(from)
        dx == Sub(e.right.x, e.left.x)
        dy == Sub(e.right.y, e.left.y)
    IN  MathSqrt(Add(Mul(dx, dx), Mul(dy, dy)))

ScaleIsEuclidean(m) ==
    m.scale = Mul(Mul(Mul(EuclideanEyeDistance(m.from), Lit(8, 10)), m.from.scale),
                  m.from.width)

\* C11: the scale updateGlasses sets on the 3D model is the Euclidean distance
\* between the two converted eye points * 0.8 * scale * width, also when the
\* two eyes differ in y.
C11_ScaleFormula ==
    \A id \in DOMAIN scene :
        scene[id].from # Null => ScaleIsEuclidean(scene[id])

\* the part of C11 that holds: with the two converted eye points level, the
\* scale is their distance * 0.8 * scale * width
C11_ScaleFormulaLevelEyes ==
    \A id \in DOMAIN scene :
        (/\ scene[id].from # Null
         /\ EyesWorld(scene[id].from).left.y = EyesWorld(scene[id].from).right.y)
        => ScaleIsEuclidean(scene[id])

\* the rectangle the last step drew on the 2D canvas, in the PNG path
PngDrawn ==
    /\ lastOp.op = "onResults"
    /\ lastOp.passed # NotReached
    /\ currentFrame = "png"
    /\ canvas2d.drawn

\* C12: the rectangle the PNG path draws is centred at the eye midpoint in
\* pixel space, (midpoint.x * canvasWidth, midpoint.y * canvasHeight), so that
\* an eye lower in the image is drawn lower on the canvas.
C12_PngCentering ==
    PngDrawn =>
        LET leftEye   == Landmark(lastOp.passed, LeftEyeOuterIdx)
            rightEye  == Landmark(lastOp.passed, RightEyeOuterIdx)
            midpointX == Div(Add(leftEye.x, rightEye.x), Two)
            midpointY == Div(Add(leftEye.y, rightEye.y), Two)
        IN  /\ canvas2d.x = Sub(Mul(midpointX, outputCanvas.width),
                                Div(canvas2d.width, Two))
            /\ canvas2d.y = Sub(Mul(midpointY, outputCanvas.height),
                                Div(canvas2d.height, Two))

\* C13: whatever the order of frame changes and GLTF load completions, the
\* scene holds at most one glasses model, that model is the one glassesModel
\* refers to, and it belongs to the frame selected last (every model of the
\* scene is the GLTF asset, so the frame selected last is then the GLTF one).
C13_SingleActiveOverlay ==
    /\ Cardinality(DOMAIN scene) <= 1
    /\ \A id \in DOMAIN scene : glassesModel = Ref(id)
    /\ (DOMAIN scene # {}) => currentFrame \in {"gltf", "realistic"}

\* the part of C13 that holds: glassesModel is null or refers to a model of
\* the scene
C13_ModelInScene ==
    glassesModel # Null => glassesModel.ref \in DOMAIN scene

\* C14: after a detection cycle that hands a frame to updateGlasses,
\* previousLandmarks is exactly that frame; a cycle with no face, or one that
\* arrives before the renderer exists, leaves previousLandmarks as it was.
C14_SingleSlotHistory ==
    lastOp.op = "onResults" =>
        IF lastOp.passed # NotReached
        THEN previousLandmarks = lastOp.passed
        ELSE previousLandmarks = lastOp.previous

\* the part of C14 that holds: the same, for the cycles in which updateGlasses
\* does not take the PNG path on a canvas without a 2D context
C14_SingleSlotHistoryNoThrow ==
    (lastOp.op = "onResults" /\ ~(currentFrame = "png" /\ pngImage # Null /\ ~context2d))
    => C14_SingleSlotHistory

=============================================================================
